---- MODULE Spec2Model ----
(***************************************************************************)
(* A model of the two functions of the repository:                         *)
(*   funcs/plot_fun.py      scatter_plot(df, n_col, outcome_col, f_size)   *)
(*   funcs/training_fun.py  train_test(features_train, outcome_train,      *)
(*                                     features_test, outcome_test, ...)   *)
(* scatter_plot is modelled statement by statement: the validation, the    *)
(* row count, the grid returned by plt.subplots and the walk over its      *)
(* cells.  train_test is modelled as a sequence of library calls.          *)
(***************************************************************************)
EXTENDS Integers, Sequences, FiniteSets, TLC

VARIABLES
    pc,             \* position in scatter_plot ("idle" when train_test is modelled)
    df,             \* the column names of the table, in table order
    n_col,          \* argument n_col
    outcome_col,    \* argument outcome_col (None when not supplied)
    n_features,     \* local n_features: <<>> while unbound, <<k>> once assigned
    feature_names,  \* local feature_names
    n_row,          \* local n_row: <<>> while unbound
    axarr,          \* what plt.subplots returned (NoGrid before the call)
    axes,           \* the Axes objects of the figure, in row-major order
    v,              \* local v: <<>> while unbound
    i,              \* loop variable of the outer loop
    j,              \* loop variable of the inner loop
    hspace,         \* argument of f.subplots_adjust: <<>> before the call, tenths
    err,            \* the exception that ended the call, "" when none
    tpc,            \* position in train_test ("idle" when scatter_plot is modelled)
    args,           \* the arguments of the running train_test call
    model,          \* local model: <<>> while unbound
    pred_train,     \* local pred_train: <<>> while unbound
    pred_test,      \* local pred_test
    rmse_train,     \* local rmse_train
    rmse_test,      \* local rmse_test
    stdout,         \* the lines the running call has printed
    returned,       \* what the last finished call returned ("None", "raised", "")
    np_random,      \* the state of numpy's global random generator
    first,          \* the arguments and the output of the first finished call
    later           \* a call after the first one has finished

plotVars == <<pc, df, n_col, outcome_col, n_features, feature_names, n_row,
              axarr, axes, v, i, j, hspace, err>>
trainVars == <<tpc, args, model, pred_train, pred_test, rmse_train, rmse_test,
               stdout, returned, np_random, first, later>>
vars == <<plotVars, trainVars>>

----------------------------------------------------------------------------
(* Bounds of the model *)

MaxCols == 4        \* a table has at most MaxCols columns
MaxNCol == 3        \* n_col ranges over -MaxNegCol .. MaxNCol
MaxNegCol == 2
MaxRows == 2        \* a feature table or an outcome vector has 1..MaxRows rows
RngPeriod == 3      \* the states of numpy's global random generator

Names == {"a", "b", "c", "d", "y"}
None == "None"

\* the sequences of pairwise different column names of length n
RECURSIVE Tables(_)
Tables(n) ==
    IF n = 0 THEN {<<>>}
    ELSE {Append(t, c) : t \in Tables(n - 1), c \in Names}

Unique(t) == \A p, q \in 1..Len(t) : p # q => t[p] # t[q]

AllTables == UNION {{t \in Tables(n) : Unique(t)} : n \in 0..MaxCols}

Range(s) == {s[k] : k \in 1..Len(s)}

----------------------------------------------------------------------------
(* Python integer arithmetic: // rounds towards minus infinity, and the     *)
(* sign of % is the sign of the divisor.                                    *)

FloorPos(a, b) == IF a >= 0 THEN a \div b ELSE -(((-a) + b - 1) \div b)

PyFloorDiv(a, b) == IF b > 0 THEN FloorPos(a, b) ELSE FloorPos(-a, -b)

PyMod(a, b) == a - b * PyFloorDiv(a, b)

----------------------------------------------------------------------------
(* scatter_plot: the pure parts *)

\* a scatter_plot without the check of line 18
OutcomeNeverNone(oc) == FALSE

\* line 18: outcome_col is None
OutcomeIsNone(oc) == oc = None

\* line 22: [x for x in df.columns.values if x != outcome_col]
FeatureNames(cols, oc) == SelectSeq(cols, LAMBDA x : x # oc)

\* a row count that adds the extra row whatever the remainder is
RowCountPlusOne(nf, nc) ==
    IF nc = 0 THEN [ok |-> FALSE, rows |-> 0]
    ELSE [ok |-> TRUE, rows |-> PyFloorDiv(nf, nc) + 1]

\* a row count that answers 0 rows for 0 columns instead of dividing by it
RowCountZeroGuard(nf, nc) ==
    IF nc = 0 THEN [ok |-> TRUE, rows |-> 0]
    ELSE IF PyMod(nf, nc) = 0
         THEN [ok |-> TRUE, rows |-> PyFloorDiv(nf, nc)]
         ELSE [ok |-> TRUE, rows |-> PyFloorDiv(nf, nc) + 1]

\* lines 25-28: the row count, or ZeroDivisionError when n_col is 0
RowCount(nf, nc) ==
    IF nc = 0 THEN [ok |-> FALSE, rows |-> 0]
    ELSE IF PyMod(nf, nc) = 0
         THEN [ok |-> TRUE, rows |-> PyFloorDiv(nf, nc)]
         ELSE [ok |-> TRUE, rows |-> PyFloorDiv(nf, nc) + 1]

\* a column lookup that never fails
HasColumnAlways(cols, name) == TRUE

\* line 30: df.loc[:, outcome_col] raises KeyError for an unknown label
HasColumn(cols, name) == name \in Range(cols)

\* line 33: plt.subplots(n_row, n_col).  A negative count is rejected by every
\* matplotlib (by GridSpec, or by numpy when the array of axes is made).  A
\* count of zero is rejected by the releases that validate the grid size and
\* gives an empty array of axes in the releases that do not, so both outcomes
\* are possible.
SubplotsOutcomes(nr, nc) ==
    IF nr < 0 \/ nc < 0 THEN {"raise"}
    ELSE IF nr = 0 \/ nc = 0 THEN {"raise", "grid"}
    ELSE {"grid"}

NoGrid == [ndim |-> -1, nrows |-> 0, ncols |-> 0]

\* line 33: the value bound to axarr (squeeze=True): the Axes itself for a
\* 1x1 grid, a 1-D array when one dimension is 1, else a 2-D array
Squeeze(nr, nc) ==
    [ndim |-> IF nr = 1 /\ nc = 1 THEN 0 ELSE IF nr = 1 \/ nc = 1 THEN 1 ELSE 2,
     nrows |-> nr, ncols |-> nc]

BlankAxes == [axis |-> "on", right |-> TRUE, top |-> TRUE, ticklen |-> 0,
              x |-> "", y |-> "", xlabel |-> "", ylabel |-> ""]

NewAxes(nr, nc) == [k \in 1..(nr * nc) |-> BlankAxes]

\* axarr.<method>: axarr used as an Axes (lines 61-63, 78-80)
Index0(ax) ==
    IF ax.ndim = 0 THEN [at |-> 1, err |-> ""]
    ELSE [at |-> 0, err |-> "AttributeError"]

\* axarr[k].<method> (lines 43, 46, 65-71, 83-92)
Index1(ax, k) ==
    IF ax.ndim = 0 THEN [at |-> 0, err |-> "TypeError"]
    ELSE IF ax.ndim = 1
         THEN IF k < ax.nrows * ax.ncols THEN [at |-> k + 1, err |-> ""]
              ELSE [at |-> 0, err |-> "IndexError"]
    ELSE IF k < ax.nrows THEN [at |-> 0, err |-> "AttributeError"]
         ELSE [at |-> 0, err |-> "IndexError"]

\* axarr[r][c].<method> (lines 49, 73-75, 95-98)
Index2(ax, r, c) ==
    IF ax.ndim = 0 THEN [at |-> 0, err |-> "TypeError"]
    ELSE IF ax.ndim = 1
         THEN IF r < ax.nrows * ax.ncols THEN [at |-> 0, err |-> "TypeError"]
              ELSE [at |-> 0, err |-> "IndexError"]
    ELSE IF r < ax.nrows /\ c < ax.ncols
         THEN [at |-> r * ax.ncols + c + 1, err |-> ""]
         ELSE [at |-> 0, err |-> "IndexError"]

\* the switch-off branch with the loop variables of the 1-D cases exchanged
OffCellSwapped(ax, nr, nc, r, c) ==
    IF nr = 1 THEN Index1(ax, r)
    ELSE IF nc = 1 THEN Index1(ax, c)
    ELSE Index2(ax, r, c)

\* lines 42-50: the cell that is switched off
OffCell(ax, nr, nc, r, c) ==
    IF nr = 1 THEN Index1(ax, c)
    ELSE IF nc = 1 THEN Index1(ax, r)
    ELSE Index2(ax, r, c)

\* lines 60-75: the cell whose spines and ticks are set
SpinesCell(ax, nr, nc, r, c) ==
    IF nr = 1 /\ nc = 1 THEN Index0(ax)
    ELSE IF nr = 1 THEN Index1(ax, c)
    ELSE IF nc = 1 THEN Index1(ax, r)
    ELSE Index2(ax, r, c)

\* lines 77-98: the cell that gets the scatter and the x label
ScatterCell(ax, nr, nc, r, c) ==
    IF nr = 1 /\ nc = 1 THEN Index0(ax)
    ELSE IF nr = 1 THEN Index1(ax, c)
    ELSE IF nc = 1 THEN Index1(ax, r)
    ELSE Index2(ax, r, c)

\* lines 80, 85-86, 91-92, 97-98: whether set_ylabel is called
SetsYLabel(nr, nc, r, c) ==
    IF nr = 1 /\ nc = 1 THEN TRUE
    ELSE IF nr = 1 THEN c = 0
    ELSE IF nc = 1 THEN r = 0
    ELSE c = 0

\* a running index that skips a feature
NextVSkip(x) == x + 2

\* line 100: v += 1
NextV(x) == x + 1

\* lines 103-106: the hspace given to subplots_adjust, in tenths
HSpace(nc) == IF nc = 1 THEN 10 ELSE 5

----------------------------------------------------------------------------
(* train_test is idle while scatter_plot is modelled, and the reverse *)

TrainIdle ==
    /\ tpc = "idle"
    /\ args = <<>>
    /\ model = <<>>
    /\ pred_train = <<>>
    /\ pred_test = <<>>
    /\ rmse_train = <<>>
    /\ rmse_test = <<>>
    /\ stdout = <<>>
    /\ returned = ""
    /\ np_random = 0
    /\ first = <<>>
    /\ later = FALSE

PlotLocalsUnbound ==
    /\ n_features = <<>>
    /\ feature_names = <<>>
    /\ n_row = <<>>
    /\ axarr = NoGrid
    /\ axes = <<>>
    /\ v = <<>>
    /\ i = 0
    /\ j = 0
    /\ hspace = <<>>
    /\ err = ""

PlotIdle ==
    /\ pc = "idle"
    /\ df = <<>>
    /\ n_col = 0
    /\ outcome_col = None
    /\ PlotLocalsUnbound

----------------------------------------------------------------------------
(* scatter_plot: the steps *)

PlotInit ==
    /\ pc = "start"
    /\ df \in AllTables
    /\ n_col \in (0 - MaxNegCol)..MaxNCol
    /\ outcome_col \in Names \cup {None}
    /\ PlotLocalsUnbound

Raise(e) ==
    /\ pc' = "failed"
    /\ err' = e

\* lines 18-19
CheckOutcome ==
    /\ pc = "start"
    /\ IF OutcomeIsNone(outcome_col)
       THEN Raise("ValueError")
       ELSE pc' = "table" /\ err' = err
    /\ UNCHANGED <<df, n_col, outcome_col, n_features, feature_names, n_row,
                   axarr, axes, v, i, j, hspace>>
    /\ UNCHANGED trainVars

\* lines 21-23
ReadTable ==
    /\ pc = "table"
    /\ n_features' = <<Len(df) - 1>>
    /\ feature_names' = FeatureNames(df, outcome_col)
    /\ pc' = "rows"
    /\ UNCHANGED <<df, n_col, outcome_col, n_row, axarr, axes, v, i, j, hspace, err>>
    /\ UNCHANGED trainVars

\* lines 25-28
ComputeRows ==
    /\ pc = "rows"
    /\ LET r == RowCount(n_features[1], n_col)
       IN  IF r.ok
           THEN n_row' = <<r.rows>> /\ pc' = "outcome" /\ err' = err
           ELSE n_row' = n_row /\ Raise("ZeroDivisionError")
    /\ UNCHANGED <<df, n_col, outcome_col, n_features, feature_names,
                   axarr, axes, v, i, j, hspace>>
    /\ UNCHANGED trainVars

\* line 30
ReadOutcome ==
    /\ pc = "outcome"
    /\ IF HasColumn(df, outcome_col)
       THEN pc' = "subplots" /\ err' = err
       ELSE Raise("KeyError")
    /\ UNCHANGED <<df, n_col, outcome_col, n_features, feature_names, n_row,
                   axarr, axes, v, i, j, hspace>>
    /\ UNCHANGED trainVars

\* lines 33-35
Subplots ==
    /\ pc = "subplots"
    /\ \E o \in SubplotsOutcomes(n_row[1], n_col) :
          IF o = "raise"
          THEN /\ Raise("ValueError")
               /\ UNCHANGED <<axarr, axes, v>>
          ELSE /\ axarr' = Squeeze(n_row[1], n_col)
               /\ axes' = NewAxes(n_row[1], n_col)
               /\ v' = <<0>>
               /\ pc' = "walk"
               /\ err' = err
    /\ UNCHANGED <<df, n_col, outcome_col, n_features, feature_names, n_row,
                   i, j, hspace>>
    /\ UNCHANGED trainVars

\* the loop headers of lines 36-37: the next (i, j)
Advance ==
    IF j + 1 < n_col
    THEN i' = i /\ j' = j + 1
    ELSE i' = i + 1 /\ j' = 0

\* lines 36-100: one pass of the inner loop body
Cell ==
    /\ pc = "walk"
    /\ i < n_row[1]
    /\ j < n_col
    /\ IF v[1] >= n_features[1]
       THEN \* lines 41-50
            LET a == OffCell(axarr, n_row[1], n_col, i, j)
            IN  IF a.at = 0
                THEN Raise(a.err) /\ UNCHANGED <<axes, v, i, j>>
                ELSE /\ axes' = [axes EXCEPT ![a.at].axis = "off"]
                     /\ Advance
                     /\ UNCHANGED <<pc, err, v>>
       ELSE IF v[1] >= Len(feature_names)
       THEN \* line 52: feature_names[v] out of range
            Raise("IndexError") /\ UNCHANGED <<axes, v, i, j>>
       ELSE \* lines 52-100
            LET lab == feature_names[v[1] + 1]
                s == SpinesCell(axarr, n_row[1], n_col, i, j)
                c == ScatterCell(axarr, n_row[1], n_col, i, j)
                spined == [axes EXCEPT ![s.at].right = FALSE,
                                       ![s.at].top = FALSE,
                                       ![s.at].ticklen = 5]
                drawn == [spined EXCEPT ![c.at].x = lab,
                                        ![c.at].y = outcome_col,
                                        ![c.at].xlabel = lab]
                labelled == IF SetsYLabel(n_row[1], n_col, i, j)
                            THEN [drawn EXCEPT ![c.at].ylabel = outcome_col]
                            ELSE drawn
            IN  IF s.at = 0
                THEN Raise(s.err) /\ UNCHANGED <<axes, v, i, j>>
                ELSE IF c.at = 0
                THEN Raise(c.err) /\ axes' = spined /\ UNCHANGED <<v, i, j>>
                ELSE /\ axes' = labelled
                     /\ v' = <<NextV(v[1])>>
                     /\ Advance
                     /\ UNCHANGED <<pc, err>>
    /\ UNCHANGED <<df, n_col, outcome_col, n_features, feature_names, n_row,
                   axarr, hspace>>
    /\ UNCHANGED trainVars

\* lines 103-106, reached when the loops are exhausted
Adjust ==
    /\ pc = "walk"
    /\ i >= n_row[1] \/ n_col <= 0
    /\ hspace' = <<HSpace(n_col)>>
    /\ pc' = "done"
    /\ UNCHANGED <<df, n_col, outcome_col, n_features, feature_names, n_row,
                   axarr, axes, v, i, j, err>>
    /\ UNCHANGED trainVars

PlotNext ==
    \/ CheckOutcome
    \/ ReadTable
    \/ ComputeRows
    \/ ReadOutcome
    \/ Subplots
    \/ Cell
    \/ Adjust

----------------------------------------------------------------------------
(* train_test.  The values the libraries compute are kept as terms: a fitted *)
(* forest is the record of what it was grown from (training data,            *)
(* hyperparameters, random draws), a prediction the record of the forest and *)
(* the table, an error the record of the outcome and the prediction.  Two    *)
(* terms are equal only when everything they were computed from is equal.    *)

DefaultTrees == 100
DefaultFeatures == 3
DefaultDepth == 6
Seed == 1234

Widths == {1, 2}
FeatureTables == [rows : 1..MaxRows, cols : Widths]
OutcomeVectors == [rows : 1..MaxRows]

Arguments ==
    [features_train : FeatureTables, outcome_train : OutcomeVectors,
     features_test : FeatureTables, outcome_test : OutcomeVectors,
     n_trees : {1, DefaultTrees}, n_features : {DefaultFeatures},
     max_depth : {DefaultDepth}]

\* lines 12-15: RandomForestRegressor(...) only stores its parameters
RandomForestRegressor(n_estimators, depth, features, random_state) ==
    [n_estimators |-> n_estimators, max_depth |-> depth,
     max_features |-> features, random_state |-> random_state,
     estimators |-> <<>>]

\* a forest that draws from numpy's global generator (random_state=None)
GlobalGenerator(random_state, global) == [global |-> TRUE, state |-> global]

\* line 15 and fit: the generator the forest draws from.  For an integer
\* random_state it is a new generator seeded with it, which has nothing to do
\* with the global one.
CheckRandomState(random_state, global) == [global |-> FALSE, state |-> random_state]

\* fit and mean_squared_error reject arguments of different lengths
SameLength(a, b) == a.rows = b.rows

\* predict rejects a table whose width is not the width the forest was fit on
SameWidth(forest, X) == forest.X.cols = X.cols

\* line 17: the fitted forest
Forest(m, X, y, draws) ==
    [X |-> X, y |-> y, n_estimators |-> m.n_estimators,
     max_depth |-> m.max_depth, max_features |-> m.max_features,
     draws |-> draws]

\* lines 18-19: model.predict(X)
Predict(forest, X) == [forest |-> forest, X |-> X, rows |-> X.rows]

\* lines 21-22: mean_squared_error(y, pred) ** 0.5
RootMeanSquaredError(y, pred) == [y |-> y, pred |-> pred]

\* lines 24-25: "<label>{}".format(value)
Format(label, value) == [label |-> label, value |-> value]

\* a train_test that prints the train error as soon as it is known
StatementAfterPrintEarly(s) ==
    CASE s = "construct" -> "fit"
      [] s = "fit" -> "predict_train"
      [] s = "predict_train" -> "predict_test"
      [] s = "predict_test" -> "mse_train"
      [] s = "mse_train" -> "print_train"
      [] s = "print_train" -> "mse_test"
      [] s = "mse_test" -> "print_test"
      [] s = "print_test" -> "return"

\* lines 12-27: the statement that follows statement s
StatementAfter(s) ==
    CASE s = "construct" -> "fit"
      [] s = "fit" -> "predict_train"
      [] s = "predict_train" -> "predict_test"
      [] s = "predict_test" -> "mse_train"
      [] s = "mse_train" -> "mse_test"
      [] s = "mse_test" -> "print_train"
      [] s = "print_train" -> "print_test"
      [] s = "print_test" -> "return"

TrainLocalsUnbound ==
    /\ model = <<>>
    /\ pred_train = <<>>
    /\ pred_test = <<>>
    /\ rmse_train = <<>>
    /\ rmse_test = <<>>

TrainInit ==
    /\ tpc = "ready"
    /\ args = <<>>
    /\ TrainLocalsUnbound
    /\ stdout = <<>>
    /\ returned = ""
    /\ np_random = 0
    /\ first = <<>>
    /\ later = FALSE

\* what a caller observes of the call that has just ended
Output(out, ret) == [stdout |-> out, returned |-> ret]

\* the end of a call, by return or by an exception
Finish(ret) ==
    /\ tpc' = "ended"
    /\ returned' = ret
    /\ IF first = <<>>
       THEN first' = <<[args |-> args[1], out |-> Output(stdout, ret)]>>
            /\ later' = later
       ELSE first' = first /\ later' = TRUE

\* line 7: a call of train_test binds the parameters
Call ==
    /\ tpc = "ready"
    /\ \E a \in Arguments : args' = <<a>>
    /\ tpc' = "construct"
    /\ UNCHANGED <<model, pred_train, pred_test, rmse_train, rmse_test, stdout,
                   returned, np_random, first, later>>
    /\ UNCHANGED plotVars

\* the frame of the ended call is released: nothing of it is kept
Discard ==
    /\ tpc = "ended"
    /\ tpc' = "ready"
    /\ args' = <<>>
    /\ model' = <<>>
    /\ pred_train' = <<>>
    /\ pred_test' = <<>>
    /\ rmse_train' = <<>>
    /\ rmse_test' = <<>>
    /\ stdout' = <<>>
    /\ returned' = ""
    /\ UNCHANGED <<np_random, first, later>>
    /\ UNCHANGED plotVars

\* lines 12-15
Construct ==
    /\ tpc = "construct"
    /\ model' = <<RandomForestRegressor(args[1].n_trees, args[1].max_depth,
                                        args[1].n_features, Seed)>>
    /\ tpc' = StatementAfter("construct")
    /\ UNCHANGED <<args, pred_train, pred_test, rmse_train, rmse_test, stdout,
                   returned, np_random, first, later>>
    /\ UNCHANGED plotVars

\* line 17
Fit ==
    /\ tpc = "fit"
    /\ IF SameLength(args[1].features_train, args[1].outcome_train)
       THEN LET rng == CheckRandomState(model[1].random_state, np_random)
                forest == Forest(model[1], args[1].features_train,
                                 args[1].outcome_train, rng.state)
            IN  /\ model' = <<[model[1] EXCEPT !.estimators = <<forest>>]>>
                /\ np_random' = IF rng.global
                                THEN (np_random + 1) % RngPeriod
                                ELSE np_random
                /\ tpc' = StatementAfter("fit")
                /\ UNCHANGED <<returned, first, later>>
       ELSE /\ Finish("raised")
            /\ UNCHANGED <<model, np_random>>
    /\ UNCHANGED <<args, pred_train, pred_test, rmse_train, rmse_test, stdout>>
    /\ UNCHANGED plotVars

\* line 18
PredictTrain ==
    /\ tpc = "predict_train"
    /\ IF SameWidth(model[1].estimators[1], args[1].features_train)
       THEN /\ pred_train' = <<Predict(model[1].estimators[1], args[1].features_train)>>
            /\ tpc' = StatementAfter("predict_train")
            /\ UNCHANGED <<returned, first, later>>
       ELSE /\ Finish("raised")
            /\ UNCHANGED pred_train
    /\ UNCHANGED <<args, model, pred_test, rmse_train, rmse_test, stdout, np_random>>
    /\ UNCHANGED plotVars

\* line 19
PredictTest ==
    /\ tpc = "predict_test"
    /\ IF SameWidth(model[1].estimators[1], args[1].features_test)
       THEN /\ pred_test' = <<Predict(model[1].estimators[1], args[1].features_test)>>
            /\ tpc' = StatementAfter("predict_test")
            /\ UNCHANGED <<returned, first, later>>
       ELSE /\ Finish("raised")
            /\ UNCHANGED pred_test
    /\ UNCHANGED <<args, model, pred_train, rmse_train, rmse_test, stdout, np_random>>
    /\ UNCHANGED plotVars

\* line 21
MseTrain ==
    /\ tpc = "mse_train"
    /\ IF SameLength(args[1].outcome_train, pred_train[1])
       THEN /\ rmse_train' = <<RootMeanSquaredError(args[1].outcome_train, pred_train[1])>>
            /\ tpc' = StatementAfter("mse_train")
            /\ UNCHANGED <<returned, first, later>>
       ELSE /\ Finish("raised")
            /\ UNCHANGED rmse_train
    /\ UNCHANGED <<args, model, pred_train, pred_test, rmse_test, stdout, np_random>>
    /\ UNCHANGED plotVars

\* line 22
MseTest ==
    /\ tpc = "mse_test"
    /\ IF SameLength(args[1].outcome_test, pred_test[1])
       THEN /\ rmse_test' = <<RootMeanSquaredError(args[1].outcome_test, pred_test[1])>>
            /\ tpc' = StatementAfter("mse_test")
            /\ UNCHANGED <<returned, first, later>>
       ELSE /\ Finish("raised")
            /\ UNCHANGED rmse_test
    /\ UNCHANGED <<args, model, pred_train, pred_test, rmse_train, stdout, np_random>>
    /\ UNCHANGED plotVars

\* line 24
PrintTrain ==
    /\ tpc = "print_train"
    /\ stdout' = Append(stdout, Format("rmse train: ", rmse_train[1]))
    /\ tpc' = StatementAfter("print_train")
    /\ UNCHANGED <<args, model, pred_train, pred_test, rmse_train, rmse_test,
                   returned, np_random, first, later>>
    /\ UNCHANGED plotVars

\* line 25
PrintTest ==
    /\ tpc = "print_test"
    /\ stdout' = Append(stdout, Format("rmse test: ", rmse_test[1]))
    /\ tpc' = StatementAfter("print_test")
    /\ UNCHANGED <<args, model, pred_train, pred_test, rmse_train, rmse_test,
                   returned, np_random, first, later>>
    /\ UNCHANGED plotVars

\* line 27
Return ==
    /\ tpc = "return"
    /\ Finish("None")
    /\ UNCHANGED <<args, model, pred_train, pred_test, rmse_train, rmse_test,
                   stdout, np_random>>
    /\ UNCHANGED plotVars

TrainNext ==
    \/ Call
    \/ Construct
    \/ Fit
    \/ PredictTrain
    \/ PredictTest
    \/ MseTrain
    \/ MseTest
    \/ PrintTrain
    \/ PrintTest
    \/ Return
    \/ Discard

----------------------------------------------------------------------------

Init ==
    \/ PlotInit /\ TrainIdle
    \/ PlotIdle /\ TrainInit

Next ==
    \/ CheckOutcome
    \/ ReadTable
    \/ ComputeRows
    \/ ReadOutcome
    \/ Subplots
    \/ Cell
    \/ Adjust
    \/ Call
    \/ Construct
    \/ Fit
    \/ PredictTrain
    \/ PredictTest
    \/ MseTrain
    \/ MseTest
    \/ PrintTrain
    \/ PrintTest
    \/ Return
    \/ Discard

Spec == Init /\ [][Next]_vars

----------------------------------------------------------------------------
(* Properties of scatter_plot *)

Supplied == outcome_col # None
Present == outcome_col \in Range(df)
Terminal == pc \in {"done", "failed"}

\* the number of columns of the table that are not the outcome column
FeatureCount == Len(df) - 1

\* the least r with r * c >= f, for c >= 1 and f >= 0
Ceiling(f, c) == CHOOSE r \in 0..f : r * c >= f /\ \A q \in 0..(r - 1) : q * c < f

\* the columns of the table without the outcome column, in table order
RECURSIVE Without(_, _)
Without(cols, name) ==
    IF cols = <<>> THEN <<>>
    ELSE IF Head(cols) = name THEN Without(Tail(cols), name)
    ELSE <<Head(cols)>> \o Without(Tail(cols), name)

Rendered(k) == axes[k].x # ""
Deactivated(k) == axes[k].axis = "off"

\* rowCount x columnCount cells, the first FeatureCount rendered, the rest off
GridAsClaimed ==
    /\ Len(axes) = Ceiling(FeatureCount, n_col) * n_col
    /\ \A k \in 1..Len(axes) :
          IF k <= FeatureCount
          THEN Rendered(k) /\ ~Deactivated(k)
          ELSE Deactivated(k) /\ ~Rendered(k)

\* C1 as stated: for every table with unique columns that holds the supplied
\* outcome column (a table of the outcome column alone included) and every
\* columnCount >= 1, scatter_plot completes, with rowCount x columnCount
\* cells of which the first featureCount in row-major order are rendered and
\* the others deactivated.
C1_GridForEveryFeatureCount ==
    (Terminal /\ Supplied /\ Present /\ n_col >= 1)
        => (pc = "done" /\ GridAsClaimed)

\* C1 amended: the same for every table with at least one feature column
\* (featureCount >= 1).
C1_GridForAtLeastOneFeature ==
    (Terminal /\ Supplied /\ Present /\ n_col >= 1 /\ FeatureCount >= 1)
        => (pc = "done" /\ GridAsClaimed)

\* a 2x2 grid for three features has been completed
C1_Witness ==
    /\ pc = "done"
    /\ Supplied /\ Present
    /\ FeatureCount = 3
    /\ n_col = 2
    /\ Deactivated(4)

\* C2: for columnCount >= 1 and featureCount >= 0 the row count computed by
\* scatter_plot is the least r with r * columnCount >= featureCount.
C2_RowCountIsCeiling ==
    (n_row # <<>> /\ n_col >= 1 /\ n_features[1] >= 0)
        => /\ n_row[1] >= 0
           /\ n_row[1] * n_col >= n_features[1]
           /\ \A q \in 0..(n_row[1] - 1) : q * n_col < n_features[1]

\* a row count with a non-zero remainder has been computed
C2_Witness ==
    /\ n_row = <<2>>
    /\ n_features = <<3>>
    /\ n_col = 2

\* C3: in every grid shape the y label (the outcome column name) is set on
\* every rendered cell of column index 0 and on no other cell.
C3_YLabelOnFirstColumnOnly ==
    \A k \in 1..Len(axes) :
        (axes[k].ylabel = outcome_col) <=> (Rendered(k) /\ (k - 1) % n_col = 0)

C5_AbsentOutcomeFailsBeforeGrid ==
    (Supplied /\ ~Present /\ pc # "idle")
        => /\ pc \notin {"subplots", "walk", "done"}
           /\ axarr = NoGrid
           /\ axes = <<>>
           /\ v = <<>>
           /\ (pc # "failed" => ENABLED PlotNext)

\* the lookup of the absent outcome column has failed
C5_Witness ==
    /\ Supplied /\ ~Present
    /\ pc = "failed"
    /\ err = "KeyError"
    /\ n_row # <<>>

\* C6: with a supplied, present outcome column and a column count of zero or
\* less the call fails for every featureCount: it never completes and never
\* renders or deactivates a cell.
C6_BadColumnCountFails ==
    (Supplied /\ Present /\ n_col <= 0)
        => /\ pc # "done"
           /\ \A k \in 1..Len(axes) : axes[k] = BlankAxes
           /\ (pc # "failed" => ENABLED PlotNext)

\* a call with a negative column count has failed in plt.subplots
C6_Witness ==
    /\ Supplied /\ Present
    /\ n_col < 0
    /\ pc = "failed"
    /\ err = "ValueError"

\* what one uniform 2-D addressing of the grid gives the cell at flat
\* position k (row (k-1) div n_col, column (k-1) mod n_col)
UniformCell(k) ==
    LET names == Without(df, outcome_col)
    IN  [axis |-> "on", right |-> FALSE, top |-> FALSE, ticklen |-> 5,
         x |-> names[k], y |-> outcome_col, xlabel |-> names[k],
         ylabel |-> IF (k - 1) % n_col = 0 THEN outcome_col ELSE ""]

\* C9: in every grid shape feature v is drawn in the cell at row v div
\* columnCount and column v mod columnCount, as a scatter against the outcome
\* with the feature's name on the x axis and the top and right borders
\* hidden, and the shape-specific code paths give each cell what one uniform
\* 2-D addressing of the grid gives it.
C9_CellsAsUniformGrid ==
    (Supplied /\ Present /\ n_col >= 1)
        => /\ \A k \in 1..Len(axes) : Rendered(k) => axes[k] = UniformCell(k)
           /\ (pc = "done" => \A k \in 1..FeatureCount : Rendered(k))

\* the part of C9 that leaves the y label aside: placement, scatter, x label
\* and borders of every rendered cell
C9_PlacementOnly ==
    (Supplied /\ Present /\ n_col >= 1)
        => /\ \A k \in 1..Len(axes) :
                Rendered(k) =>
                    [axes[k] EXCEPT !.ylabel = ""] = [UniformCell(k) EXCEPT !.ylabel = ""]
           /\ (pc = "done" => \A k \in 1..FeatureCount : Rendered(k))

\* C10: during the walk (outcome column supplied and present, columnCount
\* >= 1) 0 <= v <= featureCount, featureCount is the number of feature names,
\* no index is out of range, v ends equal to featureCount, the grid is never
\* addressed against its shape, and no cell is deactivated in a 1x1 grid or
\* when columnCount is 1.
C10_WalkIndexSafe ==
    (Supplied /\ Present /\ n_col >= 1)
        => /\ (v # <<>> => (0 <= v[1] /\ v[1] <= n_features[1]))
           /\ (n_features # <<>> => n_features[1] = Len(feature_names))
           /\ (pc = "done" => v[1] = n_features[1])
           /\ err \notin {"IndexError", "TypeError", "AttributeError"}
           /\ ((axarr.ndim = 0 \/ n_col = 1)
                  => \A k \in 1..Len(axes) : ~Deactivated(k))

\* the walk of a 3x1 grid has ended
C10_Witness ==
    /\ pc = "done"
    /\ Supplied /\ Present
    /\ n_col = 1
    /\ v = <<3>>

----------------------------------------------------------------------------
(* Properties of train_test *)

Ended == tpc = "ended"

\* C7: a call of train_test either writes exactly the two lines "rmse train:
\* <value>" and "rmse test: <value>", in this order, and returns no value, or
\* fails having written nothing; no call ends having written the train line
\* alone.
C7_TwoLinesOrNothing ==
    /\ Ended =>
          \/ /\ returned = "None"
             /\ stdout = <<Format("rmse train: ", rmse_train[1]),
                           Format("rmse test: ", rmse_test[1])>>
             /\ rmse_train[1] = RootMeanSquaredError(args[1].outcome_train, pred_train[1])
             /\ rmse_test[1] = RootMeanSquaredError(args[1].outcome_test, pred_test[1])
          \/ /\ returned = "raised"
             /\ stdout = <<>>
    /\ Len(stdout) = 1 => tpc = "print_test"

\* a call has failed in the error computation of the test split, after the
\* train error was computed
C7_Witness ==
    /\ Ended
    /\ returned = "raised"
    /\ rmse_train # <<>>
    /\ rmse_test = <<>>

\* C8: a call of train_test with the arguments of the first call gives the
\* output of the first call, whatever calls ran in between; every call
\* builds its own model, seeded with 1234 and fit once, and leaves numpy's
\* global generator alone.
C8_SameArgumentsSameOutput ==
    /\ (later /\ Ended /\ args[1] = first[1].args)
          => Output(stdout, returned) = first[1].out
    /\ tpc = "construct" => model = <<>>
    /\ model # <<>> =>
          /\ model[1].random_state = Seed
          /\ Len(model[1].estimators) <= 1
          /\ \A e \in 1..Len(model[1].estimators) : model[1].estimators[e].draws = Seed
    /\ np_random = 0

\* a later call with the arguments of the first call has returned
C8_Witness ==
    /\ later
    /\ Ended
    /\ returned = "None"
    /\ args[1] = first[1].args

====
